---- MODULE Spec2Model ----
(***************************************************************************)
(* Model of test-scripts/verify_markdownlint_fixtures.py: the expectation  *)
(* records, the parser of the linter's output, the count maps and the      *)
(* checks verify_file applies to one fixture.                              *)
(*                                                                         *)
(* main, the loop over the fixtures, has its own variables and its own      *)
(* specification; the call of verify_file made for a fixture is one step   *)
(* of it.  The parser, the combination of the two streams and the count    *)
(* maps are also run on their own, each in a specification of its own.     *)
(*                                                                         *)
(* test-scripts/markdownlint_config_helper.py, the temporary configuration *)
(* file of the option tests, is modelled by the specification SpecConfig.  *)
(*                                                                         *)
(* Texts are TLA+ strings handled character by character.  An Optional     *)
(* value of the source is the empty tuple (None) or a one-element tuple.   *)
(***************************************************************************)
EXTENDS Integers, Sequences, FiniteSets, TLC

VARIABLES
    pc,             \* position of the verify_file call
    expectations,   \* expectations_by_file[key]: the payload of this fixture
    exp_total,      \* locals of verify_file ...
    exp_errors,
    stdout,         \* proc.stdout, proc.stderr, proc.returncode
    stderr,
    returncode,
    combined,
    act_errors,
    raised,         \* None, or Some exception verify_file raised
    spawned,        \* number of calls of subprocess.run made by verify_file
    main_pc,        \* position of main: "idle", "loop", "returned", "raised"
    verbose,        \* args.verbose
    files,          \* list_fixture_files(): the labels of the fixtures
    expectations_by_file,   \* load_expected_errors(): key -> payload
    linter,         \* what subprocess.run does for each fixture
    next_file,      \* index in files of the next iteration of the loop
    failures,       \* the exceptions caught, in order
    verified,       \* the fixtures verify_file was called for, in order
    sys_stderr,     \* what main has written to sys.stderr, in order
    sys_stdout,     \* what main has printed
    result,         \* None, Some value returned, or Some exception raised
    exp_count_map,  \* exp_map and act_map: to_count_map(exp_errors) and
    act_count_map,  \* to_count_map(act_errors), None before they are built
    config_file,    \* tmp/.markdownlint-cli2.jsonc: None, or Some options written
    contexts        \* the temp_markdownlint_config contexts: where each one is

verify_vars == <<pc, expectations, exp_total, exp_errors, stdout, stderr, returncode,
                 combined, act_errors, raised, spawned>>

main_vars == <<main_pc, verbose, files, expectations_by_file, linter, next_file,
               failures, verified, sys_stderr, sys_stdout, result>>

count_vars == <<exp_count_map, act_count_map>>

config_vars == <<config_file, contexts>>

vars == <<verify_vars, main_vars, count_vars, config_vars>>

(***************************************************************************)
(* Bounds of the model.                                                    *)
(***************************************************************************)
MaxExpected == 2
MaxParseLines == 2
MaxFixtures == 2

MaxOutLines == 2

MaxRecords == 2

MaxContexts == 2

(***************************************************************************)
(* Optional[...] of the source.                                            *)
(***************************************************************************)
None == <<>>

Some(v) == <<v>>

(***************************************************************************)
(* Characters and the str methods the program uses.                        *)
(***************************************************************************)
Digits == {"0", "1", "2", "3", "4", "5", "6", "7", "8", "9"}

WhiteSpace == {" ", "\t", "\n"}

LineBreaks == {"\n"}

Ch(s, i) == SubSeq(s, i, i)

Min(S) == CHOOSE x \in S : \A y \in S : x <= y

\* first index k >= i of s whose character is not in cs (Len(s)+1 if none)
RECURSIVE SkipIn(_, _, _)
SkipIn(s, i, cs) ==
    IF i > Len(s) THEN Len(s) + 1
    ELSE IF Ch(s, i) \notin cs THEN i
    ELSE SkipIn(s, i + 1, cs)

\* first index k >= i of s whose character is in cs (Len(s)+1 if none)
RECURSIVE SkipNotIn(_, _, _)
SkipNotIn(s, i, cs) ==
    IF i > Len(s) THEN Len(s) + 1
    ELSE IF Ch(s, i) \in cs THEN i
    ELSE SkipNotIn(s, i + 1, cs)

\* last index k <= i of s whose character is not in cs (0 if none)
RECURSIVE SkipBackIn(_, _, _)
SkipBackIn(s, i, cs) ==
    IF i < 1 THEN 0
    ELSE IF Ch(s, i) \notin cs THEN i
    ELSE SkipBackIn(s, i - 1, cs)

\* s[a-1:b] of the source, empty when the range is empty
Slice(s, a, b) == IF a > b THEN "" ELSE SubSeq(s, a, b)

DigitValue(c) == CHOOSE d \in 0..9 : Ch("0123456789", d + 1) = c

RECURSIVE int(_)
int(s) ==
    IF Len(s) = 0 THEN 0
    ELSE 10 * int(Slice(s, 1, Len(s) - 1)) + DigitValue(Ch(s, Len(s)))

strip(s) ==
    LET a == SkipIn(s, 1, WhiteSpace)
        b == SkipBackIn(s, Len(s), WhiteSpace)
    IN  Slice(s, a, b)

startswith(s, prefix) ==
    /\ Len(s) >= Len(prefix)
    /\ Slice(s, 1, Len(prefix)) = prefix

\* first index k >= i at which sub occurs in s (0 if none)
RECURSIVE find_from(_, _, _)
find_from(s, sub, i) ==
    IF i + Len(sub) - 1 > Len(s) THEN 0
    ELSE IF Slice(s, i, i + Len(sub) - 1) = sub THEN i
    ELSE find_from(s, sub, i + 1)

\* str.find: 0-based index of the first occurrence of sub in s, -1 if none
find(s, sub) == find_from(s, sub, 1) - 1

RECURSIVE splitlines(_)
splitlines(s) ==
    IF s = "" THEN <<>>
    ELSE LET k == SkipNotIn(s, 1, LineBreaks)
         IN  <<Slice(s, 1, k - 1)>> \o splitlines(Slice(s, k + 1, Len(s)))

\* _RE_ERROR_LINE.match(line), the pattern being
\*     ^[^:]+:(\d+)(?::(\d+))?\s+(?:error\s+)?(\S+)\s+(.*)$
\* The result is None or Some of the four groups.  Every quantifier but
\* the optional "error" group has a single way to match (the character
\* that follows each run is outside the run's class), so the match is
\* computed left to right; the optional group is tried first and skipped
\* when the rest of the pattern fails after it.

\* (\S+)\s+(.*)$ matched from index a
RE_rule_message(s, a) ==
    LET b == SkipNotIn(s, a, WhiteSpace)
        c == SkipIn(s, b, WhiteSpace)
    IN  IF b = a \/ c = b THEN None
        ELSE Some([rule |-> Slice(s, a, b - 1), rest |-> Slice(s, c, Len(s))])

RE_ERROR_LINE(s) ==
    LET p == SkipNotIn(s, 1, {":"})
        a == p + 1
        b == SkipIn(s, a, Digits)
        hasCol == b <= Len(s) /\ Ch(s, b) = ":"
        c == IF hasCol THEN SkipIn(s, b + 1, Digits) ELSE b
        d == SkipIn(s, c, WhiteSpace)
        e == SkipIn(s, d + 5, WhiteSpace)
        withError == IF d + 4 <= Len(s) /\ Slice(s, d, d + 4) = "error" /\ e > d + 5
                     THEN RE_rule_message(s, e) ELSE None
        t == IF withError # None THEN withError ELSE RE_rule_message(s, d)
    IN  IF \/ p = 1
           \/ p > Len(s)
           \/ b = a
           \/ (hasCol /\ c = b + 1)
           \/ d = c
           \/ t = None
        THEN None
        ELSE Some([g1 |-> Slice(s, a, b - 1),
                   g2 |-> IF hasCol THEN Some(Slice(s, b + 1, c - 1)) ELSE None,
                   g3 |-> t[1].rule,
                   g4 |-> t[1].rest])

(***************************************************************************)
(* ExpectedError: line, rule, optional column, optional message_contains   *)
(* (expectations) and optional message (parsed output).                    *)
(***************************************************************************)
ExpectedError(line, rule, column, message_contains, message) ==
    [line |-> line, rule |-> rule, column |-> column,
     message_contains |-> message_contains, message |-> message]

(***************************************************************************)
(* parse_markdownlint_output                                               *)
(***************************************************************************)
\* variant: every line is considered, whatever its label
line_considered_any(line, prefix) == TRUE

\* the test of one output line against the file label's prefix
line_considered(line, prefix) == startswith(line, prefix)

\* variant: the rule is cut at the first "/" of the token
error_of_match_rule_id(m) ==
    ExpectedError(int(m.g1), Slice(m.g3, 1, SkipNotIn(m.g3, 1, {"/"}) - 1),
                  IF m.g2 # None /\ m.g2[1] # "" THEN Some(int(m.g2[1])) ELSE None,
                  None,
                  Some(strip(m.g4)))

\* the record built from a match
error_of_match(m) ==
    ExpectedError(int(m.g1), m.g3,
                  IF m.g2 # None /\ m.g2[1] # "" THEN Some(int(m.g2[1])) ELSE None,
                  None,
                  Some(strip(m.g4)))

RECURSIVE parse_lines(_, _)
parse_lines(lines, prefix) ==
    IF lines = <<>> THEN <<>>
    ELSE LET line == Head(lines)
             m == RE_ERROR_LINE(line)
             rest == parse_lines(Tail(lines), prefix)
         IN  IF ~line_considered(line, prefix) THEN rest
             ELSE IF m = None THEN rest
             ELSE <<error_of_match(m[1])>> \o rest

parse_markdownlint_output(output, file_label) ==
    parse_lines(splitlines(output), file_label \o ":")

(***************************************************************************)
(* The values of an expectations payload as yaml.safe_load returns them:   *)
(* each carries its Python type.  A dict is a record of the values of the  *)
(* keys the code reads, PyNone standing for a key that is absent or null   *)
(* (dict.get returns None for both).                                       *)
(***************************************************************************)
PyNone == [type |-> "NoneType", value |-> <<>>]

PyInt(n) == [type |-> "int", value |-> n]

PyStr(t) == [type |-> "str", value |-> t]

PyList(items) == [type |-> "list", value |-> items]

PyDict(fields) == [type |-> "dict", value |-> fields]

\* isinstance(v, t)
isinstance(v, t) == v.type = t

(***************************************************************************)
(* The exceptions raised.  kind identifies the message:                    *)
(*   "no expectations"   No expectations in expected_errors.yml for <key>  *)
(*   "not an object"     Expectations for <path> must be an object.        *)
(*   "invalid errors"    Invalid "errors" in <path> expectations (must be  *)
(*                       an array).                                        *)
(*   "invalid item"      Invalid errors[<i>] in <path> expectations (must  *)
(*                       be object).                                       *)
(*   "invalid line or rule"  Invalid errors[<i>] ... (need {line:int>=1,   *)
(*                       rule:str}).                                       *)
(*   "invalid column"    Invalid errors[<i>] ... (optional "column" must   *)
(*                       be int >= 1).                                     *)
(*   "invalid message_contains"  Invalid errors[<i>] ... (optional         *)
(*                       "message_contains" must be a string).             *)
(*   "exit code"         Unexpected exit code ... expected <text>, got ..  *)
(*   "error count"       Unexpected error count ... expected .., got ..    *)
(*   "line rule"         - line .. rule ..: expected .., got ..            *)
(*   "column"            - line .. rule .. column ..: expected .., got ..  *)
(*   "no candidate"      no actual error at line .. rule .. to check ..    *)
(*   "message_contains"  message_contains "<text>" not found ... Got: ..   *)
(*   "not started"       what subprocess.run raises when the linter        *)
(*                       cannot be run                                     *)
(* index is the i of errors[<i>] and file the key or path in the message   *)
(* of a ValueError, or the file label in the message of an AssertionError. *)
(* The message of an OSError is the operating system's: it names the       *)
(* command that could not be run, and file is empty.                       *)
(***************************************************************************)
ValueError(kind, index, file) ==
    Some([exc |-> "ValueError", kind |-> kind, index |-> index, file |-> file,
          line |-> 0, rule |-> "", column |-> None, expected |-> 0, got |-> 0,
          text |-> ""])

AssertionError(kind, line, rule, column, expected, got, text) ==
    Some([exc |-> "AssertionError", kind |-> kind, file |-> "", line |-> line,
          rule |-> rule, column |-> column, expected |-> expected, got |-> got,
          text |-> text])

\* the exception of a check, with the file_label its message is formatted
\* with
in_file(failure, label) ==
    IF failure = None THEN None ELSE Some([failure[1] EXCEPT !.file = label])

\* the result of a call: the exception it raised, or the value it returned
Raise(exception) == [raised |-> exception, value |-> <<>>]

Return(value) == [raised |-> None, value |-> value]

(***************************************************************************)
(* _parse_one_error and parse_expectations_from_data: each item of         *)
(* "errors" becomes an ExpectedError whose rule is stripped and whose      *)
(* message is unset; the total is the list's length.  No other key of the  *)
(* payload is read.                                                        *)
(***************************************************************************)
\* the fields a ValueError's message names, by kind
fields_named(kind) ==
    CASE kind = "invalid errors" -> {"errors"}
      [] kind = "invalid line or rule" -> {"line", "rule"}
      [] kind = "invalid column" -> {"column"}
      [] kind = "invalid message_contains" -> {"message_contains"}
      [] OTHER -> {}

\* variant: the rule is kept as written
parse_one_error_rule_as_written(item, idx, file_path) ==
    IF ~isinstance(item, "dict") THEN Raise(ValueError("invalid item", Some(idx), file_path))
    ELSE LET line == item.value.line
             rule == item.value.rule
             column == item.value.column
             msg_contains == item.value.message_contains
         IN  IF \/ ~isinstance(line, "int")
                \/ line.value < 1
                \/ ~isinstance(rule, "str")
                \/ strip(rule.value) = ""
             THEN Raise(ValueError("invalid line or rule", Some(idx), file_path))
             ELSE IF column # PyNone /\ (~isinstance(column, "int") \/ column.value < 1)
             THEN Raise(ValueError("invalid column", Some(idx), file_path))
             ELSE IF msg_contains # PyNone /\ ~isinstance(msg_contains, "str")
             THEN Raise(ValueError("invalid message_contains", Some(idx), file_path))
             ELSE Return(ExpectedError(
                      line.value, rule.value,
                      IF isinstance(column, "int") THEN Some(column.value) ELSE None,
                      IF isinstance(msg_contains, "str") THEN Some(msg_contains.value)
                      ELSE None,
                      None))

\* variant: the column is not validated
parse_one_error_column_unchecked(item, idx, file_path) ==
    IF ~isinstance(item, "dict") THEN Raise(ValueError("invalid item", Some(idx), file_path))
    ELSE LET line == item.value.line
             rule == item.value.rule
             column == item.value.column
             msg_contains == item.value.message_contains
         IN  IF \/ ~isinstance(line, "int")
                \/ line.value < 1
                \/ ~isinstance(rule, "str")
                \/ strip(rule.value) = ""
             THEN Raise(ValueError("invalid line or rule", Some(idx), file_path))
             ELSE IF msg_contains # PyNone /\ ~isinstance(msg_contains, "str")
             THEN Raise(ValueError("invalid message_contains", Some(idx), file_path))
             ELSE Return(ExpectedError(
                      line.value, strip(rule.value),
                      IF isinstance(column, "int") THEN Some(column.value) ELSE None,
                      IF isinstance(msg_contains, "str") THEN Some(msg_contains.value)
                      ELSE None,
                      None))

parse_one_error(item, idx, file_path) ==
    IF ~isinstance(item, "dict") THEN Raise(ValueError("invalid item", Some(idx), file_path))
    ELSE LET line == item.value.line
             rule == item.value.rule
             column == item.value.column
             msg_contains == item.value.message_contains
         IN  IF \/ ~isinstance(line, "int")
                \/ line.value < 1
                \/ ~isinstance(rule, "str")
                \/ strip(rule.value) = ""
             THEN Raise(ValueError("invalid line or rule", Some(idx), file_path))
             ELSE IF column # PyNone /\ (~isinstance(column, "int") \/ column.value < 1)
             THEN Raise(ValueError("invalid column", Some(idx), file_path))
             ELSE IF msg_contains # PyNone /\ ~isinstance(msg_contains, "str")
             THEN Raise(ValueError("invalid message_contains", Some(idx), file_path))
             ELSE Return(ExpectedError(
                      line.value, strip(rule.value),
                      IF isinstance(column, "int") THEN Some(column.value) ELSE None,
                      IF isinstance(msg_contains, "str") THEN Some(msg_contains.value)
                      ELSE None,
                      None))

\* the list comprehension stops at the first item that raises
parse_expectations_from_data(data, file_path) ==
    IF ~isinstance(data, "dict") THEN Raise(ValueError("not an object", None, file_path))
    ELSE IF ~isinstance(data.value.errors, "list")
    THEN Raise(ValueError("invalid errors", None, file_path))
    ELSE LET errors == data.value.errors.value
             parsed == [i \in DOMAIN errors |-> parse_one_error(errors[i], i - 1, file_path)]
             failed == {i \in DOMAIN parsed : parsed[i].raised # None}
         IN  IF failed # {} THEN Raise(parsed[Min(failed)].raised)
             ELSE Return([total |-> Len(parsed),
                          errors |-> [i \in DOMAIN parsed |-> parsed[i].value]])

(***************************************************************************)
(* Count maps.  A dict of the source is a record of its keys in insertion  *)
(* order and its value for each key.                                       *)
(***************************************************************************)
count_map_key(e) == <<e.line, e.rule, e.column>>

RECURSIVE key_order(_)
key_order(errors) ==
    IF errors = <<>> THEN <<>>
    ELSE LET before == key_order(SubSeq(errors, 1, Len(errors) - 1))
             key == count_map_key(errors[Len(errors)])
         IN  IF \E i \in DOMAIN before : before[i] = key THEN before
             ELSE Append(before, key)

\* variant: a key is recorded once, however many records have it
to_count_map_distinct(errors) ==
    LET order == key_order(errors)
        keyset == {order[i] : i \in DOMAIN order}
    IN  [keys |-> order, count |-> [k \in keyset |-> 1]]

to_count_map(errors) ==
    LET order == key_order(errors)
        keyset == {order[i] : i \in DOMAIN order}
    IN  [keys |-> order,
         count |-> [k \in keyset |->
                      Cardinality({i \in DOMAIN errors : count_map_key(errors[i]) = k})]]

\* m.get(key, 0)
get(m, key) == IF key \in DOMAIN m.count THEN m.count[key] ELSE 0

(***************************************************************************)
(* Order of Python tuples (int, str): sorted(pairs) in verify_file.        *)
(***************************************************************************)
\* characters of rule names, in code point order
CodePointOrder ==
    " -./0123456789:ABCDEFGHIJKLMNOPQRSTUVWXYZ_abcdefghijklmnopqrstuvwxyz"

\* rank of a character in that order (the comparison of ord(c) in Python)
ord(c) == CHOOSE i \in 1..Len(CodePointOrder) : Ch(CodePointOrder, i) = c

RECURSIVE str_lt(_, _)
str_lt(a, b) ==
    IF b = "" THEN FALSE
    ELSE IF a = "" THEN TRUE
    ELSE IF Ch(a, 1) # Ch(b, 1) THEN ord(Ch(a, 1)) < ord(Ch(b, 1))
    ELSE str_lt(Slice(a, 2, Len(a)), Slice(b, 2, Len(b)))

pair_lt(p, q) == p[1] < q[1] \/ (p[1] = q[1] /\ str_lt(p[2], q[2]))

(***************************************************************************)
(* The checks of verify_file, each None or the exception it raises.        *)
(***************************************************************************)
\* variant: only the direction "expected none, exit non-zero" is detected
check_exit_code_one_way(total, rc) ==
    IF total = 0 /\ rc # 0
    THEN AssertionError("exit code", 0, "", None, 0, rc, "0")
    ELSE None

check_exit_code(total, rc) ==
    LET exp_ok == total = 0
        act_ok == rc = 0
        want == IF exp_ok THEN "0" ELSE "non-zero"
    IN  IF exp_ok # act_ok
        THEN AssertionError("exit code", 0, "", None, 0, rc, want)
        ELSE None

\* variant: only a shortfall of actual records is detected
check_error_count_fewer(total, acts) ==
    IF Len(acts) < total
    THEN AssertionError("error count", 0, "", None, total, Len(acts), "")
    ELSE None

check_error_count(total, acts) ==
    IF Len(acts) # total
    THEN AssertionError("error count", 0, "", None, total, Len(acts), "")
    ELSE None

line_rule_pairs(m) == {<<k[1], k[2]>> : k \in DOMAIN m.count}

RECURSIVE sum_counts(_, _)
sum_counts(m, keys) ==
    IF keys = {} THEN 0
    ELSE LET k == CHOOSE x \in keys : TRUE
         IN  m.count[k] + sum_counts(m, keys \ {k})

\* variant: the keys of the pair are counted, not their occurrences
line_rule_sum_keys(m, pair) ==
    Cardinality({k \in DOMAIN m.count : k[1] = pair[1] /\ k[2] = pair[2]})

\* sum(c for (l, r, _), c in m.items() if l == lr_line and r == lr_rule)
line_rule_sum(m, pair) ==
    sum_counts(m, {k \in DOMAIN m.count : k[1] = pair[1] /\ k[2] = pair[2]})

\* variant: the pairs are visited in descending order
check_line_rule_descending(exp_map, act_map) ==
    LET pairs == line_rule_pairs(exp_map) \cup line_rule_pairs(act_map)
        differ == {p \in pairs : line_rule_sum(exp_map, p) # line_rule_sum(act_map, p)}
        first == CHOOSE p \in differ : \A q \in differ \ {p} : pair_lt(q, p)
    IN  IF differ = {} THEN None
        ELSE AssertionError("line rule", first[1], first[2], None,
                            line_rule_sum(exp_map, first),
                            line_rule_sum(act_map, first), "")

check_line_rule(exp_map, act_map) ==
    LET pairs == line_rule_pairs(exp_map) \cup line_rule_pairs(act_map)
        differ == {p \in pairs : line_rule_sum(exp_map, p) # line_rule_sum(act_map, p)}
        first == CHOOSE p \in differ : \A q \in differ \ {p} : pair_lt(p, q)
    IN  IF differ = {} THEN None
        ELSE AssertionError("line rule", first[1], first[2], None,
                            line_rule_sum(exp_map, first),
                            line_rule_sum(act_map, first), "")

\* variant: no expected key is ever short
column_never_short(exp_map, act_map, key) == FALSE

\* variant: equal counts are reported as a shortfall
column_short_or_equal(exp_map, act_map, key) ==
    key[3] # None /\ exp_map.count[key] >= get(act_map, key)

\* the test of one expected key against the actual count at that key
column_short(exp_map, act_map, key) ==
    key[3] # None /\ exp_map.count[key] > get(act_map, key)

check_column(exp_map, act_map) ==
    LET short == {i \in DOMAIN exp_map.keys :
                     column_short(exp_map, act_map, exp_map.keys[i])}
        key == exp_map.keys[Min(short)]
    IN  IF short = {} THEN None
        ELSE AssertionError("column", key[1], key[2], key[3],
                            exp_map.count[key], get(act_map, key), "")

\* variant: the column of the expectation is not compared
candidates_any_column(exp, acts) ==
    LET match(a) == a.line = exp.line /\ a.rule = exp.rule
    IN  SelectSeq(acts, match)

\* the candidates of one expectation in _assert_message_contains
candidates(exp, acts) ==
    LET match(a) == /\ a.line = exp.line
                    /\ a.rule = exp.rule
                    /\ (exp.column = None \/ a.column = exp.column)
    IN  SelectSeq(acts, match)

\* (a.message or "")
message_or_empty(a) == IF a.message = None THEN "" ELSE a.message[1]

\* any(... find(exp.message_contains) >= 0 for a in candidates)
any_contains(cands, needle) ==
    \E j \in DOMAIN cands : find(message_or_empty(cands[j]), needle) >= 0

assert_message_contains(exps, acts) ==
    LET failing == {i \in DOMAIN exps :
                       /\ exps[i].message_contains # None
                       /\ \/ candidates(exps[i], acts) = <<>>
                          \/ ~any_contains(candidates(exps[i], acts),
                                           exps[i].message_contains[1])}
        exp == exps[Min(failing)]
        cands == candidates(exp, acts)
    IN  IF failing = {} THEN None
        ELSE IF cands = <<>>
        THEN AssertionError("no candidate", exp.line, exp.rule, None, 0, 0, "")
        ELSE AssertionError("message_contains", exp.line, exp.rule, None, 0, 0,
                            exp.message_contains[1])

(***************************************************************************)
(* The order in which verify_file applies its checks (lines 246-288).      *)
(***************************************************************************)
\* variant: the total count is checked before the exit code
check_order_count_first ==
    <<"error count", "exit code", "line rule", "column", "message_contains">>

\* variant: the message check follows the per-(line, rule) check directly
check_order_without_column ==
    <<"exit code", "error count", "line rule", "message_contains">>

check_order ==
    <<"exit code", "error count", "line rule", "column", "message_contains">>

check(name, total, exps, acts, rc) ==
    CASE name = "exit code" -> check_exit_code(total, rc)
      [] name = "error count" -> check_error_count(total, acts)
      [] name = "line rule" -> check_line_rule(to_count_map(exps), to_count_map(acts))
      [] name = "column" -> check_column(to_count_map(exps), to_count_map(acts))
      [] name = "message_contains" -> assert_message_contains(exps, acts)

\* the label of the fixture: its path relative to the repository root
file_label == "file.md"

\* repo_root().as_posix()
repo_root == "/repo"

\* file_path.as_posix() and file_path.name of the fixture of a label
as_posix(label) == repo_root \o "/" \o label

RECURSIVE file_name(_)
file_name(label) ==
    LET k == SkipNotIn(label, 1, {"/"})
    IN  IF k > Len(label) THEN label ELSE file_name(Slice(label, k + 1, Len(label)))

\* variant: the failure to run the linter is reported as a ValueError
OSError_as_ValueError(kind) == ValueError(kind, None, "")

\* what subprocess.run raises when the linter cannot be run
OSError(kind) ==
    Some([exc |-> "OSError", kind |-> kind, index |-> None, file |-> "",
          line |-> 0, rule |-> "", column |-> None, expected |-> 0, got |-> 0,
          text |-> ""])

\* what subprocess.run does: it raises, or returns the completed process
NotStarted == [started |-> FALSE, stdout |-> "", stderr |-> "", returncode |-> 0]

Completed(out, err, rc) ==
    [started |-> TRUE, stdout |-> out, stderr |-> err, returncode |-> rc]

\* proc.stdout, a newline if both streams are non-empty, proc.stderr
streams_joined(out, err) ==
    out \o (IF out # "" /\ err # "" THEN "\n" ELSE "") \o err

\* the text verify_file parses: the joined streams, stripped
combine(out, err) == strip(streams_joined(out, err))

\* the checks from the i-th on: the first exception raised, None if none
RECURSIVE first_failure(_, _, _, _, _)
first_failure(i, total, exps, acts, rc) ==
    IF i > Len(check_order) THEN None
    ELSE LET failure == check(check_order[i], total, exps, acts, rc)
         IN  IF failure # None THEN failure
             ELSE first_failure(i + 1, total, exps, acts, rc)

\* lines 227-288: verify_file once parse_expectations_from_data has raised
\* or returned
verify_parsed(label, parsed, proc) ==
    IF parsed.raised # None THEN parsed.raised
    ELSE IF ~proc.started THEN OSError("not started")
    ELSE in_file(first_failure(1, parsed.value.total, parsed.value.errors,
                               parse_markdownlint_output(combine(proc.stdout, proc.stderr),
                                                         label),
                               proc.returncode),
                 label)

\* verify_file as a function of the fixture's label, of its entry in
\* expectations_by_file (None when the key is missing) and of what
\* subprocess.run does: None, or the exception raised
verify_file_of(label, data, proc) ==
    IF data = None THEN ValueError("no expectations", None, file_name(label))
    ELSE verify_parsed(label, parse_expectations_from_data(data[1], as_posix(label)), proc)

\* verify_file for the fixture file_label and a linter that completed
verify_file(data, out, err, rc) ==
    verify_file_of(file_label, data, Completed(out, err, rc))

(***************************************************************************)
(* The inputs of one verification: the fixture's expectations payload and  *)
(* what the linter process writes and returns.                             *)
(***************************************************************************)
SeqsUpTo(S, n) == UNION {[1..k -> S] : k \in 0..n}

\* an item of "errors" that is a mapping: the values of its four keys
Mapping(line, rule, column, message_contains) ==
    PyDict([line |-> line, rule |-> rule, column |-> column,
            message_contains |-> message_contains])

\* a well-formed item
Item(line, rule, column, message_contains) ==
    Mapping(PyInt(line), PyStr(rule),
            IF column = None THEN PyNone ELSE PyInt(column[1]),
            IF message_contains = None THEN PyNone ELSE PyStr(message_contains[1]))

\* a payload whose "errors" is the list of the items, without or with a
\* "total" key
Payload(items) == PyDict([errors |-> PyList(items), total |-> PyNone])

PayloadWithTotal(items, total) == PyDict([errors |-> PyList(items), total |-> total])

\* the items of a payload accepted by the loader
items_of(data) == data.value.errors.value

ExpectedPool ==
    { Item(1, "X", None, None),
      Item(1, "X", Some(5), None),
      Item(1, " X ", None, Some("needle")),
      Item(1, "X", Some(5), Some("needle")),
      Item(2, "MD001", None, None) }

OutLinePool ==
    { "file.md:1:5 X msg1",
      "file.md:1:10 X a needle",
      "file.md:2 MD001/heading-increment some msg",
      "file.md:1 X ",
      "other.md:1 X msg" }

\* items the loader rejects: not a mapping; line absent, not an int, < 1;
\* rule absent, not a str, blank; column not an int, < 1; message_contains
\* not a str
MalformedPool ==
    { PyStr("line 1 rule X"),
      Mapping(PyNone, PyStr("X"), PyNone, PyNone),
      Mapping(PyStr("1"), PyStr("X"), PyNone, PyNone),
      Mapping(PyInt(0), PyStr("X"), PyNone, PyNone),
      Mapping(PyInt(1), PyNone, PyNone, PyNone),
      Mapping(PyInt(1), PyInt(1), PyNone, PyNone),
      Mapping(PyInt(1), PyStr(" \t"), PyNone, PyNone),
      Mapping(PyInt(1), PyStr("X"), PyStr("5"), PyNone),
      Mapping(PyInt(1), PyStr("X"), PyInt(0), PyNone),
      Mapping(PyInt(1), PyStr("X"), PyInt(5), PyInt(123)),
      Mapping(PyInt(0), PyStr("X"), PyInt(0), PyInt(123)) }

\* payloads that are no mapping or whose "errors" is no list
ShapelessPayloads ==
    { PyList(<<>>),
      PyStr("errors"),
      PyNone,
      PyDict([errors |-> PyNone, total |-> PyNone]),
      PyDict([errors |-> PyStr("line 1"), total |-> PyNone]),
      PyDict([errors |-> Payload(<<>>), total |-> PyInt(0)]) }

\* payloads with a "total" key
TotalPayloads ==
    { PayloadWithTotal(items, PyInt(n)) :
        items \in {<<>>, <<Item(1, "X", None, None)>>}, n \in {-1, 0, 1} }

StderrPool == {"", "file.md:1 X msg\n"}

ReturnCodes == {0, 1}

\* the text of a stream that holds the given lines, each ended by a newline
RECURSIVE text_of(_)
text_of(lines) ==
    IF lines = <<>> THEN ""
    ELSE lines[1] \o "\n" \o text_of(Tail(lines))

\* main is not running
MainIdle ==
    /\ main_pc = "idle"
    /\ verbose = FALSE
    /\ files = <<>>
    /\ expectations_by_file = <<>>
    /\ linter = <<>>
    /\ next_file = 0
    /\ failures = <<>>
    /\ verified = <<>>
    /\ sys_stderr = <<>>
    /\ sys_stdout = <<>>
    /\ result = None

\* no count map is being built
CountIdle ==
    /\ exp_count_map = None
    /\ act_count_map = None

\* no temporary configuration is in use
ConfigIdle ==
    /\ config_file = None
    /\ contexts = <<>>

(***************************************************************************)
(* verify_file as a state machine.  pc is "start", "loaded", the name of   *)
(* the check about to be applied, or "done".                               *)
(***************************************************************************)
Init ==
    /\ pc = "start"
    /\ expectations \in
         {None} \cup {Some(data) : data \in
            {Payload(items) : items \in SeqsUpTo(ExpectedPool \cup MalformedPool, MaxExpected)}
              \cup ShapelessPayloads \cup TotalPayloads}
    /\ exp_total = 0
    /\ exp_errors = <<>>
    /\ stdout = ""
    /\ stderr = ""
    /\ returncode = 0
    /\ combined = ""
    /\ act_errors = <<>>
    /\ raised = None
    /\ spawned = 0
    /\ MainIdle
    /\ CountIdle
    /\ ConfigIdle

\* variant: a fixture without an entry is taken to expect no error
LoadExpectations_missing_as_empty ==
    /\ pc = "start"
    /\ LET parsed == IF expectations = None THEN Return([total |-> 0, errors |-> <<>>])
                     ELSE parse_expectations_from_data(expectations[1],
                                                       as_posix(file_label))
       IN  IF parsed.raised # None
           THEN /\ raised' = parsed.raised
                /\ pc' = "done"
                /\ UNCHANGED <<exp_total, exp_errors>>
           ELSE /\ exp_total' = parsed.value.total
                /\ exp_errors' = parsed.value.errors
                /\ pc' = "loaded"
                /\ UNCHANGED raised
    /\ UNCHANGED <<expectations, stdout, stderr, returncode, combined, act_errors,
                   spawned>>
    /\ UNCHANGED <<main_vars, count_vars, config_vars>>

\* lines 222-227: the entry of the fixture is looked up and parsed
LoadExpectations ==
    /\ pc = "start"
    /\ IF expectations = None
       THEN /\ raised' = ValueError("no expectations", None, file_name(file_label))
            /\ pc' = "done"
            /\ UNCHANGED <<exp_total, exp_errors>>
       ELSE LET parsed == parse_expectations_from_data(expectations[1],
                                                       as_posix(file_label))
            IN  IF parsed.raised # None
                THEN /\ raised' = parsed.raised
                     /\ pc' = "done"
                     /\ UNCHANGED <<exp_total, exp_errors>>
                ELSE /\ exp_total' = parsed.value.total
                     /\ exp_errors' = parsed.value.errors
                     /\ pc' = "loaded"
                     /\ UNCHANGED raised
    /\ UNCHANGED <<expectations, stdout, stderr, returncode, combined, act_errors,
                   spawned>>
    /\ UNCHANGED <<main_vars, count_vars, config_vars>>

\* variant: the linter is run once more to read its standard error
RunLinter_twice ==
    /\ pc = "loaded"
    /\ \E lines \in SeqsUpTo(OutLinePool, MaxOutLines), err \in StderrPool,
          rc \in ReturnCodes :
            /\ stdout' = text_of(lines)
            /\ stderr' = err
            /\ returncode' = rc
    /\ combined' = combine(stdout', stderr')
    /\ act_errors' = parse_markdownlint_output(combined', file_label)
    /\ pc' = check_order[1]
    /\ spawned' = spawned + 2
    /\ UNCHANGED <<expectations, exp_total, exp_errors, raised>>
    /\ UNCHANGED <<main_vars, count_vars, config_vars>>

\* lines 229-244: the linter process runs and completes; its streams are
\* combined and parsed
RunLinter ==
    /\ pc = "loaded"
    /\ \E lines \in SeqsUpTo(OutLinePool, MaxOutLines), err \in StderrPool,
          rc \in ReturnCodes :
            /\ stdout' = text_of(lines)
            /\ stderr' = err
            /\ returncode' = rc
    /\ combined' = combine(stdout', stderr')
    /\ act_errors' = parse_markdownlint_output(combined', file_label)
    /\ pc' = check_order[1]
    /\ spawned' = spawned + 1
    /\ UNCHANGED <<expectations, exp_total, exp_errors, raised>>
    /\ UNCHANGED <<main_vars, count_vars, config_vars>>

\* lines 229-235: subprocess.run raises, the linter could not be run; the
\* exception leaves verify_file
LinterNotStarted ==
    /\ pc = "loaded"
    /\ raised' = OSError("not started")
    /\ pc' = "done"
    /\ spawned' = spawned + 1
    /\ UNCHANGED <<expectations, exp_total, exp_errors, stdout, stderr, returncode,
                   combined, act_errors>>
    /\ UNCHANGED <<main_vars, count_vars, config_vars>>

\* one check of lines 246-288: it raises, or the next check is reached
ApplyCheck(name) ==
    /\ pc = name
    /\ LET i == CHOOSE j \in DOMAIN check_order : check_order[j] = name
           failure == in_file(check(name, exp_total, exp_errors, act_errors, returncode),
                              file_label)
       IN  IF failure # None
           THEN /\ raised' = failure
                /\ pc' = "done"
           ELSE /\ raised' = None
                /\ pc' = IF i = Len(check_order) THEN "done" ELSE check_order[i + 1]
    /\ UNCHANGED <<expectations, exp_total, exp_errors, stdout, stderr, returncode,
                   combined, act_errors, spawned>>
    /\ UNCHANGED <<main_vars, count_vars, config_vars>>

CheckExitCode == ApplyCheck("exit code")

CheckErrorCount == ApplyCheck("error count")

CheckLineRule == ApplyCheck("line rule")

CheckColumn == ApplyCheck("column")

CheckMessageContains == ApplyCheck("message_contains")

Next ==
    \/ LoadExpectations
    \/ RunLinter
    \/ LinterNotStarted
    \/ CheckExitCode
    \/ CheckErrorCount
    \/ CheckLineRule
    \/ CheckColumn
    \/ CheckMessageContains

Spec == Init /\ [][Next]_vars

(***************************************************************************)
(* parse_markdownlint_output applied on its own to an output text: pc is   *)
(* "parse" before the call and "parsed" after it; combined is the text     *)
(* parsed and act_errors the records returned.                             *)
(***************************************************************************)
ParseLinePool ==
    { "file.md:3 X msg",
      "file.md:1:5 X a msg \t",
      "file.md:2:3 error MD001/heading-increment some msg",
      "file.md:2 error MD001",
      "file.md: not an error line",
      "file.md:7 X",
      "file.md:1 X ",
      "other.md:1 X msg",
      "" }

InitParse ==
    /\ pc = "parse"
    /\ expectations = None
    /\ exp_total = 0
    /\ exp_errors = <<>>
    /\ stdout = ""
    /\ stderr = ""
    /\ returncode = 0
    /\ combined \in {text_of(lines) : lines \in SeqsUpTo(ParseLinePool, MaxParseLines)}
    /\ act_errors = <<>>
    /\ raised = None
    /\ spawned = 0
    /\ MainIdle
    /\ CountIdle
    /\ ConfigIdle

ParseOutput ==
    /\ pc = "parse"
    /\ act_errors' = parse_markdownlint_output(combined, file_label)
    /\ pc' = "parsed"
    /\ UNCHANGED <<expectations, exp_total, exp_errors, stdout, stderr, returncode,
                   combined, raised, spawned>>
    /\ UNCHANGED <<main_vars, count_vars, config_vars>>

NextParse == ParseOutput

SpecParse == InitParse /\ [][NextParse]_vars

(***************************************************************************)
(* Lines 237-244 of verify_file applied on their own to the two streams of *)
(* a completed process: pc is "combine" before and "combined" after; the   *)
(* streams are any texts, ended by a newline or not.                       *)
(***************************************************************************)
StreamPool ==
    { "",
      "\n",
      "noise",
      "file.md:1 X msg",
      "file.md:1 X msg\n",
      "file.md:2 Y ",
      "file.md:2 Y \n",
      " file.md:3 Z msg",
      "file.md:1:5 X a\nfile.md:2 Y b" }

InitCombine ==
    /\ pc = "combine"
    /\ expectations = None
    /\ exp_total = 0
    /\ exp_errors = <<>>
    /\ stdout \in StreamPool
    /\ stderr \in StreamPool
    /\ returncode = 0
    /\ combined = ""
    /\ act_errors = <<>>
    /\ raised = None
    /\ spawned = 0
    /\ MainIdle
    /\ CountIdle
    /\ ConfigIdle

CombineAndParse ==
    /\ pc = "combine"
    /\ combined' = combine(stdout, stderr)
    /\ act_errors' = parse_markdownlint_output(combined', file_label)
    /\ pc' = "combined"
    /\ UNCHANGED <<expectations, exp_total, exp_errors, stdout, stderr, returncode,
                   raised, spawned>>
    /\ UNCHANGED <<main_vars, count_vars, config_vars>>

NextCombine == CombineAndParse

SpecCombine == InitCombine /\ [][NextCombine]_vars

(***************************************************************************)
(* Lines 261-277 of verify_file applied on their own to the expected and   *)
(* the actual records: the two count maps are built (pc "count"), then the *)
(* per-(line, rule) sums are compared (pc "compare"), and pc is            *)
(* "compared".  The two lists are as long as each other, as they are once  *)
(* the check of the total has passed.                                      *)
(***************************************************************************)
ExpectedRecordPool ==
    { ExpectedError(99, "X", None, None, None),
      ExpectedError(1, "X", None, None, None),
      ExpectedError(1, "X", Some(5), None, None),
      ExpectedError(1, "a", None, None, None),
      ExpectedError(2, "Y", None, Some("needle"), None) }

ActualRecordPool ==
    { ExpectedError(1, "X", None, None, Some("msg")),
      ExpectedError(1, "X", None, None, Some("other msg")),
      ExpectedError(1, "X", Some(5), None, Some("msg")),
      ExpectedError(1, "a", None, None, Some("msg")),
      ExpectedError(2, "Y", None, None, Some("a needle")) }

InitCompare ==
    /\ pc = "count"
    /\ expectations = None
    /\ \E n \in 0..MaxRecords :
          /\ exp_errors \in [1..n -> ExpectedRecordPool]
          /\ act_errors \in [1..n -> ActualRecordPool]
          /\ exp_total = n
    /\ stdout = ""
    /\ stderr = ""
    /\ returncode = 1
    /\ combined = ""
    /\ raised = None
    /\ spawned = 1
    /\ exp_count_map = None
    /\ act_count_map = None
    /\ MainIdle
    /\ ConfigIdle

\* lines 261-262
CountMaps ==
    /\ pc = "count"
    /\ exp_count_map' = Some(to_count_map(exp_errors))
    /\ act_count_map' = Some(to_count_map(act_errors))
    /\ pc' = "compare"
    /\ UNCHANGED <<expectations, exp_total, exp_errors, stdout, stderr, returncode,
                   combined, act_errors, raised, spawned>>
    /\ UNCHANGED <<main_vars, config_vars>>

\* lines 267-277
CompareLineRule ==
    /\ pc = "compare"
    /\ raised' = in_file(check_line_rule(exp_count_map[1], act_count_map[1]), file_label)
    /\ pc' = "compared"
    /\ UNCHANGED <<expectations, exp_total, exp_errors, stdout, stderr, returncode,
                   combined, act_errors, spawned>>
    /\ UNCHANGED <<main_vars, count_vars, config_vars>>

NextCompare ==
    \/ CountMaps
    \/ CompareLineRule

SpecCompare == InitCompare /\ [][NextCompare]_vars

(***************************************************************************)
(* main: the loop over the fixtures (lines 311-340).  What comes before    *)
(* the loop (the arguments, the linter command, the list of fixtures, the  *)
(* expectations file) is the initial state.                                *)
(***************************************************************************)
\* list_fixture_files(): positive.md, then the negative_*.md sorted
FixtureFiles ==
    << "md_test_files/positive.md",
       "md_test_files/negative_a.md",
       "md_test_files/negative_b.md" >>

\* the entries of expected_errors.yml: well-formed, with a malformed item,
\* no mapping, and with an "errors" that is an int or a str
EntryPool ==
    { Payload(<<>>),
      Payload(<<Item(1, "X", None, None)>>),
      Payload(<<Mapping(PyInt(0), PyStr("X"), PyNone, PyNone)>>),
      PyList(<<>>),
      PyDict([errors |-> PyInt(3), total |-> PyNone]),
      PyDict([errors |-> PyStr("line 1"), total |-> PyNone]) }

\* what subprocess.run does for a fixture
LinterBehaviours == {"not started", "no output", "one error"}

subprocess_run(label, behaviour) ==
    CASE behaviour = "not started" -> NotStarted
      [] behaviour = "no output" -> Completed("", "", 0)
      [] behaviour = "one error" -> Completed(label \o ":1 X msg\n", "", 1)

\* the exceptions of an attribute that is missing and of len() of an
\* object without length
AttributeError(kind) ==
    Some([exc |-> "AttributeError", kind |-> kind, index |-> None, file |-> "",
          line |-> 0, rule |-> "", column |-> None, expected |-> 0, got |-> 0,
          text |-> ""])

TypeError(kind) ==
    Some([exc |-> "TypeError", kind |-> kind, index |-> None, file |-> "",
          line |-> 0, rule |-> "", column |-> None, expected |-> 0, got |-> 0,
          text |-> ""])

\* bool(v) is False, for the values of the model
falsy(v) == v \in {PyNone, PyInt(0), PyStr(""), PyList(<<>>)}

\* len(v), for a list, a str, or a value without length
len(v) ==
    IF v.type \in {"list", "str"} THEN Return(Len(v.value)) ELSE Raise(TypeError("len"))

\* lines 315-318: the number of expected errors main announces
announced_total(by_file, key) ==
    IF key \notin DOMAIN by_file THEN Return(0)
    ELSE IF ~isinstance(by_file[key], "dict") THEN Raise(AttributeError("get"))
    ELSE LET errors == by_file[key].value.errors
         IN  len(IF falsy(errors) THEN PyList(<<>>) ELSE errors)

\* a write to sys.stderr or sys.stdout: its fixed text and what is
\* formatted into it
Write(text, file, count, message) ==
    [text |-> text, file |-> file, count |-> count, message |-> message]

\* the except clause of line 327
caught(exception) ==
    exception.exc \in {"AssertionError", "ValueError", "OSError", "SubprocessError"}

\* variant: the progress line is ended before verify_file is called
iteration_end_ok_at_once(verb, label, st, announced, failure) ==
    IF announced.raised # None THEN Raise(announced.raised)
    ELSE IF failure # None /\ ~caught(failure[1]) THEN Raise(failure)
    ELSE Return([failures |-> IF failure = None THEN st.failures
                              ELSE Append(st.failures, failure[1]),
                 verified |-> Append(st.verified, label),
                 sys_stderr |->
                     IF verb
                     THEN st.sys_stderr
                            \o <<Write("Verifying", label, announced.value, None),
                                 Write("ok", "", 0, None)>>
                     ELSE st.sys_stderr])

\* lines 321-329: the end of an iteration, from the total announced and
\* from what verify_file raised
iteration_end(verb, label, st, announced, failure) ==
    IF announced.raised # None THEN Raise(announced.raised)
    ELSE IF failure # None /\ ~caught(failure[1]) THEN Raise(failure)
    ELSE Return([failures |-> IF failure = None THEN st.failures
                              ELSE Append(st.failures, failure[1]),
                 verified |-> Append(st.verified, label),
                 sys_stderr |->
                     IF verb
                     THEN st.sys_stderr
                            \o <<Write("Verifying", label, announced.value, None),
                                 Write(IF failure = None THEN "ok" ELSE "FAIL", "", 0, None)>>
                     ELSE st.sys_stderr])

\* the entry of a key in expectations_by_file, None when it is missing
entry_of(by_file, key) == IF key \in DOMAIN by_file THEN Some(by_file[key]) ELSE None

\* lines 313-329: one iteration of the loop, from the failures, the
\* fixtures verified and the writes so far; it raises, or gives these three
\* as they are after it
iteration(verb, by_file, behaviours, label, st) ==
    iteration_end(verb, label, st,
                  IF verb THEN announced_total(by_file, file_name(label)) ELSE Return(0),
                  verify_file_of(label, entry_of(by_file, file_name(label)),
                                 subprocess_run(label, behaviours[label])))

\* lines 331-338: the report and the value returned
report(st) ==
    IF st.failures # <<>>
    THEN [value |-> 1,
          sys_stderr |-> st.sys_stderr
              \o <<Write("markdownlint fixture verification failed", "",
                         Len(st.failures), None)>>
              \o [i \in DOMAIN st.failures |-> Write("", "", 0, Some(st.failures[i]))],
          sys_stdout |-> <<>>]
    ELSE [value |-> 0,
          sys_stderr |-> st.sys_stderr,
          sys_stdout |-> <<Write("All markdownlint fixture expectations matched.",
                                 "", 0, None)>>]

\* main from its i-th iteration on: how it ends ("returned" or "raised"),
\* with what, and what it has recorded and written
RECURSIVE main_from(_, _, _, _, _, _)
main_from(verb, fs, by_file, behaviours, i, st) ==
    IF i > Len(fs)
    THEN LET r == report(st)
         IN  [main_pc |-> "returned", result |-> Some(r.value), failures |-> st.failures,
              verified |-> st.verified, sys_stderr |-> r.sys_stderr,
              sys_stdout |-> r.sys_stdout]
    ELSE LET r == iteration(verb, by_file, behaviours, fs[i], st)
         IN  IF r.raised # None
             THEN [main_pc |-> "raised", result |-> r.raised, failures |-> st.failures,
                   verified |-> st.verified, sys_stderr |-> st.sys_stderr,
                   sys_stdout |-> <<>>]
             ELSE main_from(verb, fs, by_file, behaviours, i + 1, r.value)

\* main as a function of the flag, the fixtures, the expectations and what
\* subprocess.run does
main(verb, fs, by_file, behaviours) ==
    main_from(verb, fs, by_file, behaviours, 1,
              [failures |-> <<>>, verified |-> <<>>, sys_stderr |-> <<>>])

\* verify_file is not running on its own
VerifyIdle ==
    /\ pc = "idle"
    /\ expectations = None
    /\ exp_total = 0
    /\ exp_errors = <<>>
    /\ stdout = ""
    /\ stderr = ""
    /\ returncode = 0
    /\ combined = ""
    /\ act_errors = <<>>
    /\ raised = None
    /\ spawned = 0

InitMain ==
    /\ VerifyIdle
    /\ CountIdle
    /\ ConfigIdle
    /\ main_pc = "loop"
    /\ verbose \in BOOLEAN
    /\ files \in {SubSeq(FixtureFiles, 1, n) : n \in 1..MaxFixtures}
    /\ expectations_by_file \in
         UNION {[keys -> EntryPool] :
                  keys \in SUBSET {file_name(files[i]) : i \in DOMAIN files}}
    /\ linter \in [{files[i] : i \in DOMAIN files} -> LinterBehaviours]
    /\ next_file = 1
    /\ failures = <<>>
    /\ verified = <<>>
    /\ sys_stderr = <<>>
    /\ sys_stdout = <<>>
    /\ result = None

\* the step of an iteration that raised or returned r
IterationStep(r) ==
    IF r.raised # None
    THEN /\ main_pc' = "raised"
         /\ result' = r.raised
         /\ UNCHANGED <<next_file, failures, verified, sys_stderr>>
    ELSE /\ failures' = r.value.failures
         /\ verified' = r.value.verified
         /\ sys_stderr' = r.value.sys_stderr
         /\ next_file' = next_file + 1
         /\ UNCHANGED <<main_pc, result>>

\* lines 313-329: the iteration for the next fixture
VerifyNext ==
    /\ main_pc = "loop"
    /\ next_file <= Len(files)
    /\ IterationStep(iteration(verbose, expectations_by_file, linter, files[next_file],
                               [failures |-> failures, verified |-> verified,
                                sys_stderr |-> sys_stderr]))
    /\ UNCHANGED <<verbose, files, expectations_by_file, linter, sys_stdout>>
    /\ UNCHANGED <<verify_vars, count_vars, config_vars>>

\* lines 331-338: the loop is over
ReportAndReturn ==
    /\ main_pc = "loop"
    /\ next_file > Len(files)
    /\ LET r == report([failures |-> failures, verified |-> verified,
                        sys_stderr |-> sys_stderr])
       IN  /\ sys_stderr' = r.sys_stderr
           /\ sys_stdout' = r.sys_stdout
           /\ result' = Some(r.value)
    /\ main_pc' = "returned"
    /\ UNCHANGED <<verbose, files, expectations_by_file, linter, next_file, failures,
                   verified>>
    /\ UNCHANGED <<verify_vars, count_vars, config_vars>>

NextMain ==
    \/ VerifyNext
    \/ ReportAndReturn

SpecMain == InitMain /\ [][NextMain]_vars

(***************************************************************************)
(* test-scripts/markdownlint_config_helper.py: temp_markdownlint_config    *)
(* and run_markdownlint_with_config.  A dict of a configuration is a       *)
(* function from its keys to its values, written as text.  config_file is  *)
(* the content of the one file every context writes,                       *)
(* tmp/.markdownlint-cli2.jsonc; contexts gives, for each use of the       *)
(* context manager, whether it is "new", "active" (between its entry and   *)
(* its exit) or "left", who entered it ("with": a with statement of a      *)
(* test; "run": run_markdownlint_with_config), its overrides and how its   *)
(* body ended.  Contexts are entered and left in any order.                *)
(***************************************************************************)
\* the repository's .markdownlint.yml and .markdownlint-cli2.jsonc
markdownlint_yml == Some([default |-> "True", MD013 |-> "False"])

markdownlint_cli2_jsonc ==
    Some([customRules |-> <<"rules/no-tables.js">>, ignores |-> <<"tmp/**", "node_modules/**">>])

load_base_config ==
    IF markdownlint_yml = None THEN [default |-> "True"] ELSE markdownlint_yml[1]

merge_overrides(base, overrides) ==
    [key \in DOMAIN base \cup DOMAIN overrides |->
        IF key \in DOMAIN overrides THEN overrides[key] ELSE base[key]]

load_cli2_options ==
    IF markdownlint_cli2_jsonc = None THEN [customRules |-> <<>>, ignores |-> <<>>]
    ELSE markdownlint_cli2_jsonc[1]

\* the path every context yields
config_path == repo_root \o "/tmp/.markdownlint-cli2.jsonc"

\* lines 76-90: the options written to the file
options_of(overrides) ==
    LET base == IF "default" \in DOMAIN overrides /\ overrides["default"] = "False"
                THEN [default |-> "False"]
                ELSE load_base_config
        cli2 == load_cli2_options
    IN  [config |-> merge_overrides(base, overrides),
         customRules |-> [i \in DOMAIN cli2.customRules |->
                            repo_root \o "/" \o cli2.customRules[i]],
         ignores |-> SelectSeq(cli2.ignores, LAMBDA i : i # "tmp/**")]

\* line 93: write_text creates the file or replaces its content
write_text(file, text) == Some(text)

\* variant: the file is removed after the yield, without try/finally
after_body_without_finally(outcome, file) ==
    IF outcome = "raised" THEN file ELSE None

\* lines 94-101: the file once the body has returned or raised; it is
\* unlinked if it exists
after_body(outcome, file) ==
    IF file # None THEN None ELSE file

OverridesPool ==
    { <<>>,
      [MD013 |-> "line_length: 120"],
      [default |-> "False", MD041 |-> "True"] }

NewContext == [state |-> "new", by |-> "", overrides |-> <<>>, outcome |-> ""]

InitConfig ==
    /\ VerifyIdle
    /\ MainIdle
    /\ CountIdle
    /\ config_file = None
    /\ contexts = [c \in 1..MaxContexts |-> NewContext]

\* a context is entered by `by` with the overrides: lines 76-95
EnterBy(c, by, overrides) ==
    /\ contexts[c].state = "new"
    /\ config_file' = write_text(config_file, options_of(overrides))
    /\ contexts' = [contexts EXCEPT ![c] = [state |-> "active", by |-> by,
                                            overrides |-> overrides, outcome |-> ""]]
    /\ UNCHANGED <<verify_vars, main_vars, count_vars>>

\* the body of a context entered by `by` ends: lines 96-101
LeaveBy(c, by, outcome) ==
    /\ contexts[c].state = "active"
    /\ contexts[c].by = by
    /\ config_file' = after_body(outcome, config_file)
    /\ contexts' = [contexts EXCEPT ![c].state = "left", ![c].outcome = outcome]
    /\ UNCHANGED <<verify_vars, main_vars, count_vars>>

\* with temp_markdownlint_config(overrides) as config_path: ...
Enter == \E c \in 1..MaxContexts, overrides \in OverridesPool : EnterBy(c, "with", overrides)

BodyReturns == \E c \in 1..MaxContexts : LeaveBy(c, "with", "returned")

BodyRaises == \E c \in 1..MaxContexts : LeaveBy(c, "with", "raised")

\* run_markdownlint_with_config: lines 121-141, up to the call of
\* subprocess.run
RunStarts == \E c \in 1..MaxContexts, overrides \in OverridesPool : EnterBy(c, "run", overrides)

\* lines 142-148: subprocess.run returns the completed process, which is
\* returned, or raises
RunReturns == \E c \in 1..MaxContexts : LeaveBy(c, "run", "returned")

RunRaises == \E c \in 1..MaxContexts : LeaveBy(c, "run", "raised")

NextConfig ==
    \/ Enter
    \/ BodyReturns
    \/ BodyRaises
    \/ RunStarts
    \/ RunReturns
    \/ RunRaises

SpecConfig == InitConfig /\ [][NextConfig]_vars

(***************************************************************************)
(* Properties.                                                             *)
(***************************************************************************)
\* the kind of the exception raised, "none" when nothing was raised
raised_kind == IF raised = None THEN "none" ELSE raised[1].kind

\* verify_file has returned or raised, the expectations had loaded and the
\* linter had completed
Finished == pc = "done" /\ (raised = None \/ raised[1].exc = "AssertionError")

\* number of records of a sequence at a (line, rule), columns ignored
CountLineRule(errors, line, rule) ==
    Cardinality({i \in DOMAIN errors : errors[i].line = line /\ errors[i].rule = rule})

\* number of records of a sequence at an exact (line, rule, column)
CountAt(errors, line, rule, column) ==
    Cardinality({i \in DOMAIN errors :
        errors[i].line = line /\ errors[i].rule = rule /\ errors[i].column = column})

ExitPolicyViolated == (Len(items_of(expectations[1])) = 0) # (returncode = 0)

TotalViolated == Len(act_errors) # Len(items_of(expectations[1]))

LineRuleViolated ==
    \E e \in {exp_errors[i] : i \in DOMAIN exp_errors}
             \cup {act_errors[j] : j \in DOMAIN act_errors} :
        CountLineRule(exp_errors, e.line, e.rule) # CountLineRule(act_errors, e.line, e.rule)

ColumnViolated ==
    \E i \in DOMAIN exp_errors :
        /\ exp_errors[i].column # None
        /\ CountAt(exp_errors, exp_errors[i].line, exp_errors[i].rule, exp_errors[i].column)
             > CountAt(act_errors, exp_errors[i].line, exp_errors[i].rule, exp_errors[i].column)

\* sub occurs in s as a literal substring
IsSubstring(sub, s) ==
    \E a \in 1..(Len(s) + 1), b \in 0..Len(s) : Slice(s, a, b) = sub

MessageViolated ==
    \E i \in DOMAIN exp_errors :
        /\ exp_errors[i].message_contains # None
        /\ ~\E j \in DOMAIN act_errors :
              /\ act_errors[j].line = exp_errors[i].line
              /\ act_errors[j].rule = exp_errors[i].rule
              /\ (exp_errors[i].column = None \/ act_errors[j].column = exp_errors[i].column)
              /\ act_errors[j].message # None
              /\ IsSubstring(exp_errors[i].message_contains[1], act_errors[j].message[1])

\* C1: the failure verify_file raises is that of the first check that fails
\* in the order exit code, total count, (line, rule) counts, column counts,
\* message substrings; it passes when none fails.
C1_FirstFailingCheckReported ==
    Finished =>
        raised_kind =
            IF ExitPolicyViolated THEN "exit code"
            ELSE IF TotalViolated THEN "error count"
            ELSE IF LineRuleViolated THEN "line rule"
            ELSE IF ColumnViolated THEN "column"
            ELSE IF MessageViolated THEN "message_contains"
            ELSE "none"

C1_Witness ==
    /\ Finished
    /\ ~ExitPolicyViolated
    /\ ~TotalViolated
    /\ LineRuleViolated
    /\ MessageViolated
    /\ raised_kind = "line rule"

\* C2: once the expectations are loaded and the linter has completed, an
\* "exit code" failure is raised exactly when (expected total = 0) differs
\* from (return code = 0), whatever the output.
C2_ExitCodeIff ==
    Finished => (raised_kind = "exit code" <=> ExitPolicyViolated)

C2_Witness ==
    /\ Finished
    /\ Len(items_of(expectations[1])) >= 1
    /\ returncode = 0
    /\ combined # ""
    /\ raised_kind = "exit code"

\* C3: when the exit-code policy is satisfied, an "error count" failure is
\* raised exactly when the number of parsed records differs from the
\* expected total; verify_file never passes with a different number.
C3_ErrorCountIff ==
    /\ (Finished /\ ~ExitPolicyViolated) =>
          (raised_kind = "error count" <=> TotalViolated)
    /\ (Finished /\ raised = None) => Len(act_errors) = Len(items_of(expectations[1]))

C3_Witness ==
    /\ Finished
    /\ ~ExitPolicyViolated
    /\ Len(act_errors) > Len(items_of(expectations[1]))
    /\ raised_kind = "error count"

\* the (line, rule) check was applied and did not raise
LineRulePassed ==
    /\ expectations # None
    /\ \/ pc \in {"column", "message_contains"}
       \/ pc = "done" /\ raised_kind \in {"column", "no candidate", "message_contains", "none"}

\* the (line, rule) check was applied
LineRuleApplied == LineRulePassed \/ (pc = "done" /\ raised_kind = "line rule")

\* C4: when the exit-code and total checks pass, the (line, rule) check
\* passes exactly when every (line, rule) of an expected or actual record
\* has as many expected as actual records, columns ignored on both sides.
C4_LineRuleIff ==
    LineRuleApplied => (LineRulePassed <=> ~LineRuleViolated)

\* two column-less expectations met by hits at two different columns
C4_Witness ==
    /\ Finished
    /\ raised = None
    /\ \E i, j \in DOMAIN exp_errors, k, l \in DOMAIN act_errors :
          /\ i # j
          /\ exp_errors[i].column = None
          /\ exp_errors[j].column = None
          /\ count_map_key(exp_errors[i]) = count_map_key(exp_errors[j])
          /\ act_errors[k].line = exp_errors[i].line
          /\ act_errors[l].line = exp_errors[i].line
          /\ act_errors[k].rule = exp_errors[i].rule
          /\ act_errors[l].rule = exp_errors[i].rule
          /\ act_errors[k].column # None
          /\ act_errors[l].column # None
          /\ act_errors[k].column # act_errors[l].column

\* the column check was applied
ColumnApplied ==
    /\ expectations # None
    /\ \/ pc = "message_contains"
       \/ pc = "done" /\ raised_kind \in {"column", "no candidate", "message_contains", "none"}

\* C5: after the (line, rule) check passes, a failure naming the column
\* is raised exactly when some expected key with a column has more expected
\* occurrences than there are actual records at that exact key; the failure
\* reports such a key with both counts.
C5_ColumnIff ==
    ColumnApplied =>
        /\ raised_kind = "column" <=> ColumnViolated
        /\ raised_kind = "column" =>
              /\ raised[1].column # None
              /\ raised[1].expected =
                    CountAt(exp_errors, raised[1].line, raised[1].rule, raised[1].column)
              /\ raised[1].got =
                    CountAt(act_errors, raised[1].line, raised[1].rule, raised[1].column)
              /\ raised[1].expected > raised[1].got

\* two expectations at (1, X, 5) against records at (1, X, 5) and (1, X, 10)
C5_Witness ==
    /\ Finished
    /\ raised = in_file(AssertionError("column", 1, "X", Some(5), 2, 1, ""), file_label)
    /\ CountAt(act_errors, 1, "X", Some(10)) = 1

\* number of column-less records of a sequence at a (line, rule)
CountColumnLess(errors, line, rule) == CountAt(errors, line, rule, None)

\* C6 as stated: whenever verify_file passes, every expected key that pins
\* a column has exactly as many actual records at that key as expected
\* records, for every mix of pinned and column-less expectations.
C6_ExactAccountingAnyMix ==
    (Finished /\ raised = None) =>
        \A i \in DOMAIN exp_errors :
            exp_errors[i].column # None =>
                CountAt(act_errors, exp_errors[i].line, exp_errors[i].rule, exp_errors[i].column)
                  = CountAt(exp_errors, exp_errors[i].line, exp_errors[i].rule, exp_errors[i].column)

\* C6 amended: whenever verify_file passes, every expected key that pins a
\* column has at least as many actual records at that key as expected
\* records and at most that number plus the number of column-less
\* expectations at the same (line, rule); the two numbers are equal when no
\* column-less expectation shares the (line, rule).
C6_ExactAccountingWithoutMix ==
    (Finished /\ raised = None) =>
        \A i \in DOMAIN exp_errors :
            exp_errors[i].column # None =>
                LET e == exp_errors[i]
                    actual == CountAt(act_errors, e.line, e.rule, e.column)
                    expected == CountAt(exp_errors, e.line, e.rule, e.column)
                    free == CountColumnLess(exp_errors, e.line, e.rule)
                IN  /\ actual >= expected
                    /\ actual <= expected + free
                    /\ free = 0 => actual = expected

\* a pass with a pinned and a column-less expectation at the same (line, rule)
C6_Witness ==
    /\ Finished
    /\ raised = None
    /\ \E i, j \in DOMAIN exp_errors :
          /\ exp_errors[i].column # None
          /\ exp_errors[j].column = None
          /\ exp_errors[i].line = exp_errors[j].line
          /\ exp_errors[i].rule = exp_errors[j].rule

\* every count check was applied and passed
CountsPassed ==
    /\ Finished
    /\ raised_kind \in {"no candidate", "message_contains", "none"}

\* C7: after all count checks pass, verify_file passes exactly when every
\* expectation carrying message_contains has an actual record at its line
\* and rule (and column when it specifies one) whose message contains the
\* value as a literal substring; otherwise the failure names the substring
\* of such an unmet expectation.
C7_MessageContainsIff ==
    CountsPassed =>
        /\ raised = None <=> ~MessageViolated
        /\ raised # None =>
              /\ raised_kind = "message_contains"
              /\ \E i \in DOMAIN exp_errors :
                    /\ exp_errors[i].message_contains = Some(raised[1].text)
                    /\ exp_errors[i].line = raised[1].line
                    /\ exp_errors[i].rule = raised[1].rule

\* the substring is found at the line and rule, but not at the pinned column
C7_Witness ==
    /\ CountsPassed
    /\ raised_kind = "message_contains"
    /\ \E i \in DOMAIN exp_errors, j \in DOMAIN act_errors :
          /\ exp_errors[i].message_contains # None
          /\ exp_errors[i].column # None
          /\ act_errors[j].line = exp_errors[i].line
          /\ act_errors[j].rule = exp_errors[i].rule
          /\ act_errors[j].column # exp_errors[i].column
          /\ IsSubstring(exp_errors[i].message_contains[1], act_errors[j].message[1])

\* C8: with expected errors [{line 2, rule "MD001"}], a non-zero exit code
\* and the single output line "<label>:2 MD001/heading-increment some msg",
\* verification passes.
C8_CompositeRuleMatchesPlainId ==
    ( /\ Finished
      /\ expectations = Some(Payload(<<Item(2, "MD001", None, None)>>))
      /\ returncode # 0
      /\ stdout = "file.md:2 MD001/heading-increment some msg\n"
      /\ stderr = "" )
    => raised = None

\* the permutations of 1..n
IndexPermutations(n) == {f \in [1..n -> 1..n] : \A i, j \in 1..n : f[i] = f[j] => i = j}

\* the sequence seq reordered by the permutation f
Permuted(seq, f) == [i \in DOMAIN seq |-> seq[f[i]]]

\* C9: for a fixed exit code, whether verify_file passes or fails is
\* unchanged by any permutation of the lines of the linter's output and by
\* any permutation of the entries of the expectation's errors list.
C9_PermutationInvariant ==
    Finished =>
        LET lines == splitlines(stdout)
            errors == items_of(expectations[1])
        IN  \A f \in IndexPermutations(Len(lines)), g \in IndexPermutations(Len(errors)) :
                (verify_file(Some(Payload(Permuted(errors, g))),
                             text_of(Permuted(lines, f)), stderr, returncode) = None)
                  <=> (raised = None)

\* the lines of the combined output that start with the label and a colon
LabelledLines ==
    LET lines == splitlines(combined)
        prefix == file_label \o ":"
    IN  SelectSeq(lines, LAMBDA l : Len(l) >= Len(prefix) /\ SubSeq(l, 1, Len(prefix)) = prefix)

\* parse_markdownlint_output has just returned
Parsed == pc = "parsed"

\* C10: parse_markdownlint_output returns records only for the lines that
\* start with the label followed by a colon: the records are those of these
\* lines alone, and there are no more records than such lines.
C10_OnlyLabelledLines ==
    Parsed =>
        /\ Len(act_errors) <= Len(LabelledLines)
        /\ act_errors = parse_markdownlint_output(text_of(LabelledLines), file_label)

\* a well-formed diagnostic for another label stands among parsed ones
C10_Witness ==
    /\ Parsed
    /\ \E i \in DOMAIN splitlines(combined) :
          /\ splitlines(combined)[i] = "other.md:1 X msg"
          /\ RE_ERROR_LINE(splitlines(combined)[i]) # None
    /\ Len(act_errors) >= 1
    /\ Len(act_errors) = Len(LabelledLines)
    /\ Len(LabelledLines) < Len(splitlines(combined))

\* every character of s is in cs
AllIn(s, cs) == \A i \in 1..Len(s) : Ch(s, i) \in cs

\* no character of s is in cs
NoneIn(s, cs) == \A i \in 1..Len(s) : Ch(s, i) \notin cs

\* m is t without its leading and trailing whitespace
IsTrimOf(m, t) ==
    \E a \in 1..(Len(t) + 1), b \in 0..Len(t) :
        /\ Slice(t, a, b) = m
        /\ AllIn(Slice(t, 1, a - 1), WhiteSpace)
        /\ AllIn(Slice(t, b + 1, Len(t)), WhiteSpace)
        /\ m # "" => (Ch(m, 1) \notin WhiteSpace /\ Ch(m, Len(m)) \notin WhiteSpace)

\* line reads <label>:<line>[:<column>] <rule> <message>, with the word
\* "error" between the position and the rule when viaError; r is None, or
\* Some record that must carry the parts so read
HasShape(line, viaError, r) ==
    LET n == Len(line)
        a == Len(file_label) + 2
    IN  /\ startswith(line, file_label \o ":")
        /\ \E b \in a..n :
             /\ AllIn(Slice(line, a, b), Digits)
             /\ r # None => r[1].line = int(Slice(line, a, b))
             /\ \E c \in b..n :
                  /\ \/ c = b /\ (r # None => r[1].column = None)
                     \/ /\ c > b + 1
                        /\ Ch(line, b + 1) = ":"
                        /\ AllIn(Slice(line, b + 2, c), Digits)
                        /\ r # None => r[1].column = Some(int(Slice(line, b + 2, c)))
                  /\ \E d \in (c + 1)..n :
                       /\ AllIn(Slice(line, c + 1, d), WhiteSpace)
                       /\ \E e \in d..n :
                            /\ IF viaError
                               THEN /\ e > d + 5
                                    /\ Slice(line, d + 1, d + 5) = "error"
                                    /\ AllIn(Slice(line, d + 6, e), WhiteSpace)
                               ELSE e = d
                            /\ \E f \in (e + 1)..n :
                                 /\ NoneIn(Slice(line, e + 1, f), WhiteSpace)
                                 /\ r # None => r[1].rule = Slice(line, e + 1, f)
                                 /\ \E g \in (f + 1)..n :
                                      /\ AllIn(Slice(line, f + 1, g), WhiteSpace)
                                      /\ r # None =>
                                           /\ r[1].message # None
                                           /\ IsTrimOf(r[1].message[1], Slice(line, g + 1, n))

\* line is a diagnostic of the label
IsDiagnostic(line) == HasShape(line, TRUE, None) \/ HasShape(line, FALSE, None)

\* r is the record of the diagnostic line: the word "error" is taken as
\* the optional token wherever a rule and a separator follow it
IsRecordOf(r, line) ==
    /\ r.message_contains = None
    /\ IF HasShape(line, TRUE, None) THEN HasShape(line, TRUE, Some(r))
       ELSE HasShape(line, FALSE, Some(r))

Accepted == pc = "loaded"

\* C12: for every payload the loader accepts, the total returned is the
\* length of the records returned and of the payload's "errors"; the i-th
\* record carries the line, column and message_contains of the i-th item,
\* its rule without the surrounding whitespace, and no message; an empty
\* list gives total 0 and no record.
C12_RecordsMirrorItems ==
    Accepted =>
        LET items == items_of(expectations[1])
        IN  /\ exp_total = Len(exp_errors)
            /\ exp_total = Len(items)
            /\ \A i \in DOMAIN items :
                  LET item == items[i].value
                      e == exp_errors[i]
                  IN  /\ e.line = item.line.value
                      /\ IsTrimOf(e.rule, item.rule.value)
                      /\ e.column = IF item.column = PyNone THEN None
                                    ELSE Some(item.column.value)
                      /\ e.message_contains =
                           IF item.message_contains = PyNone THEN None
                           ELSE Some(item.message_contains.value)
                      /\ e.message = None
            /\ items = <<>> => (exp_total = 0 /\ exp_errors = <<>>)

\* two items, the first with whitespace around its rule, are accepted
C12_Witness ==
    /\ Accepted
    /\ expectations = Some(Payload(<<Item(1, " X ", None, Some("needle")),
                                     Item(1, "X", Some(5), None)>>))
    /\ exp_total = 2
    /\ exp_errors = <<ExpectedError(1, "X", None, Some("needle"), None),
                      ExpectedError(1, "X", Some(5), None, None)>>

\* the keys of an item that is a mapping whose values the loader must refuse
FaultyFields(item) ==
    {f \in {"line", "rule", "column", "message_contains"} :
        LET v == item.value[f]
        IN  CASE f = "line" -> ~(v.type = "int" /\ v.value >= 1)
              [] f = "rule" -> ~(v.type = "str" /\ ~AllIn(v.value, WhiteSpace))
              [] f = "column" -> v # PyNone /\ ~(v.type = "int" /\ v.value >= 1)
              [] f = "message_contains" -> v # PyNone /\ v.type # "str"}

MalformedItem(item) == item.type # "dict" \/ FaultyFields(item) # {}

\* the payload is no mapping, its "errors" no list, or an item is malformed
IsMalformed(data) ==
    \/ data.type # "dict"
    \/ data.value.errors.type # "list"
    \/ \E i \in DOMAIN items_of(data) : MalformedItem(items_of(data)[i])

\* the entry of the fixture has been looked up and parsed
Loaded == pc # "start" /\ expectations # None

C14_ExplicitTotalChecked ==
    ( /\ Accepted
      /\ expectations[1].value.total # PyNone )
    => /\ expectations[1].value.total.type = "int"
       /\ expectations[1].value.total.value >= 0
       /\ expectations[1].value.total.value = Len(items_of(expectations[1]))

\* C15: when the fixture has no entry or a malformed one, verify_file
\* raises a ValueError whose message names the file, no linter process has
\* been spawned and no output has been read or compared.
C15_NoEntryNoProcess ==
    (pc # "start" /\ (expectations = None \/ IsMalformed(expectations[1]))) =>
        /\ pc = "done"
        /\ raised # None
        /\ raised[1].exc = "ValueError"
        /\ raised[1].file \in {file_name(file_label), as_posix(file_label)}
        /\ spawned = 0
        /\ stdout = "" /\ stderr = "" /\ combined = "" /\ act_errors = <<>>

\* the fixture has no entry
C15_Witness ==
    /\ pc = "done"
    /\ expectations = None
    /\ raised = ValueError("no expectations", None, file_name(file_label))
    /\ spawned = 0

\* C19: when the linter cannot be run, verify_file ends at once with the
\* OSError or SubprocessError of subprocess.run, never an AssertionError or
\* a ValueError; no output is parsed and no check is applied.
C19_ToolingErrorPropagates ==
    [][(pc = "loaded" /\ pc' \notin {"loaded"} \cup {check_order[i] : i \in DOMAIN check_order})
         => /\ pc' = "done"
            /\ raised' # None
            /\ raised'[1].exc \in {"OSError", "SubprocessError"}
            /\ combined' = ""
            /\ act_errors' = <<>>]_vars

\* the expectations hold two errors and the linter could not be run
C19_Witness ==
    /\ pc = "done"
    /\ Len(exp_errors) = 2
    /\ spawned = 1
    /\ raised = OSError("not started")
    /\ act_errors = <<>>

\* C20: every call of verify_file spawns exactly one linter process,
\* whatever its outcome (pass, assertion failure or specification error).
C20_OneProcessPerCall ==
    pc = "done" => spawned = 1

\* C20 amended: a call of verify_file whose entry exists and is well-formed
\* calls subprocess.run exactly once, whatever follows (pass, assertion
\* failure, or the linter not starting); a call that ends with a
\* specification error, the entry missing or malformed, calls it never.
C20_OneProcessOnceLoaded ==
    /\ spawned <= 1
    /\ pc = "done" =>
          spawned = IF expectations = None \/ IsMalformed(expectations[1]) THEN 0 ELSE 1

\* an assertion failure after one run of the linter
C20_Witness ==
    /\ pc = "done"
    /\ raised # None
    /\ raised[1].exc = "AssertionError"
    /\ raised[1].kind = "message_contains"
    /\ spawned = 1

\* main has returned or raised
MainEnded == main_pc \in {"returned", "raised"}

\* C16: in every run of main, with or without --verbose, verify_file is
\* called for each fixture of the list exactly once and in list order,
\* whatever the outcome or the entry of the fixtures before it.
C16_EveryFixtureVerified ==
    /\ \E n \in 0..Len(files) : verified = SubSeq(files, 1, n)
    /\ MainEnded => verified = files

\* the entry of fixture i, and whether its verification fails
EntryOf(i) == entry_of(expectations_by_file, file_name(files[i]))

FailedFixtures ==
    {i \in DOMAIN files :
        verify_file_of(files[i], EntryOf(i), subprocess_run(files[i], linter[files[i]]))
          # None}

\* the writes of the report that carry a failure message
ReportedMessages == SelectSeq(sys_stderr, LAMBDA w : w.message # None)

\* C17: main returns 1 if and only if the verification of at least one
\* fixture failed, and 0 otherwise; the report holds as many failure
\* messages as fixtures failed; the success message is printed only when
\* none failed.
C17_ReturnValueAndReport ==
    /\ MainEnded =>
          /\ main_pc = "returned"
          /\ result = Some(IF FailedFixtures # {} THEN 1 ELSE 0)
          /\ Len(ReportedMessages) = Cardinality(FailedFixtures)
    /\ sys_stdout # <<>> => FailedFixtures = {}

\* C18: for the same fixtures, expectations and linter behaviour, the run
\* with --verbose and the run without end the same way, with the same
\* value and the same failure messages.
C18_VerboseSameOutcome ==
    MainEnded =>
        LET other == main(~verbose, files, expectations_by_file, linter)
        IN  /\ other.main_pc = main_pc
            /\ other.result = result
            /\ other.failures = failures

\* the fixtures whose verification fails, in list order
FailedInOrder ==
    SelectSeq(files, LAMBDA f : \E i \in FailedFixtures : files[i] = f)

\* the message of an exception names the fixture of a label: by its label,
\* its path or its file name
names_fixture(exception, label) ==
    exception.file \in {label, as_posix(label), file_name(label)}

\* C22: every failure message main records for its report names the
\* fixture it came from, be it a specification error, an assertion failure
\* or a tooling error.
C22_FailureNamesFixture ==
    main_pc = "returned" =>
        /\ Len(failures) = Len(FailedInOrder)
        /\ \A i \in DOMAIN failures : names_fixture(failures[i], FailedInOrder[i])

\* the writes of the progress lines: their start and their end
ProgressWrites ==
    SelectSeq(sys_stderr, LAMBDA w : w.text \in {"Verifying", "ok", "FAIL"})

\* the number of expected errors of fixture i when its entry is missing (0)
\* or well-formed (the length of its list); any number otherwise
IsExpectedCount(n, i) ==
    IF EntryOf(i) = None THEN n = 0
    ELSE LET parsed == parse_expectations_from_data(EntryOf(i)[1], as_posix(files[i]))
         IN  parsed.raised = None => n = parsed.value.total

CandidatesOf(exp) ==
    {j \in DOMAIN act_errors :
        /\ act_errors[j].line = exp.line
        /\ act_errors[j].rule = exp.rule
        /\ (exp.column # None => act_errors[j].column = exp.column)}

\* C28: when verify_file reaches the message check, every expectation that
\* carries message_contains has at least one candidate among the actual
\* records, and verify_file never raises the "no actual error at line ...
\* to check message_contains" failure.
C28_MessageCheckHasCandidates ==
    /\ pc = "message_contains" =>
          \A i \in DOMAIN exp_errors :
              exp_errors[i].message_contains # None => CandidatesOf(exp_errors[i]) # {}
    /\ raised_kind # "no candidate"

\* the message check is reached with an expectation that pins a column and
\* carries message_contains, and a record the linter gave at another column
C28_Witness ==
    /\ pc = "message_contains"
    /\ \E i \in DOMAIN exp_errors, j \in DOMAIN act_errors :
          /\ exp_errors[i].message_contains # None
          /\ exp_errors[i].column # None
          /\ j \notin CandidatesOf(exp_errors[i])
          /\ act_errors[j].line = exp_errors[i].line
          /\ act_errors[j].rule = exp_errors[i].rule

(***************************************************************************)
(* The token "error" of an output line (SpecParse).                        *)
(***************************************************************************)
\* the whitespace-delimited words of a line
RECURSIVE Words(_)
Words(s) ==
    LET a == SkipIn(s, 1, WhiteSpace)
        b == SkipNotIn(s, a, WhiteSpace)
    IN  IF a > Len(s) THEN <<>>
        ELSE <<Slice(s, a, b - 1)>> \o Words(Slice(s, b, Len(s)))

\* w reads <label>:<line> or <label>:<line>:<column>
IsLocation(w) ==
    LET rest == Slice(w, Len(file_label) + 2, Len(w))
        b == SkipIn(rest, 1, Digits)
    IN  /\ startswith(w, file_label \o ":")
        /\ b > 1
        /\ \/ b > Len(rest)
           \/ /\ Ch(rest, b) = ":"
              /\ b < Len(rest)
              /\ SkipIn(rest, b + 1, Digits) > Len(rest)

\* line reads <label>:<line>[:<column>] error <rule>, with or without a
\* message after the rule
HasErrorToken(line) ==
    /\ Len(Words(line)) >= 3
    /\ startswith(line, file_label)
    /\ IsLocation(Words(line)[1])
    /\ Words(line)[2] = "error"

\* C27: the record of every line <label>:<line>[:<column>] error <rule>,
\* with or without a message after the rule, has <rule> as its rule: the
\* word "error" is not taken as the rule.
C27_ErrorTokenIsNotTheRule ==
    Parsed =>
        LET diagnostics == SelectSeq(splitlines(combined), IsDiagnostic)
        IN  \A i \in DOMAIN diagnostics :
                HasErrorToken(diagnostics[i]) =>
                    /\ i \in DOMAIN act_errors
                    /\ act_errors[i].rule = Words(diagnostics[i])[3]

(***************************************************************************)
(* The streams of the linter: lines 237-244 (SpecCombine).                 *)
(***************************************************************************)
Combined == pc = "combined"

\* C21: the records verify_file parses are those of the diagnostic lines of
\* stdout followed by those of the diagnostic lines of stderr: a line counts
\* the same in either stream, and the last line of stdout never merges with
\* the first line of stderr.
C21_StreamsParsedLineByLine ==
    Combined =>
        act_errors = parse_markdownlint_output(stdout, file_label)
                       \o parse_markdownlint_output(stderr, file_label)

\* C29: stripping the combined text neither drops nor adds a diagnostic: the
\* records verify_file parses are those parse_markdownlint_output returns
\* for the unstripped text of the two streams.
C29_StripKeepsRecords ==
    Combined =>
        act_errors = parse_markdownlint_output(streams_joined(stdout, stderr), file_label)

(***************************************************************************)
(* The count maps and the comparison of the per-(line, rule) sums          *)
(* (SpecCompare).                                                          *)
(***************************************************************************)
Counted == pc \in {"compare", "compared"}

\* the sum of the counts of a mapping from keys to counts
RECURSIVE SumOf(_)
SumOf(count) ==
    IF DOMAIN count = {} THEN 0
    ELSE LET k == CHOOSE x \in DOMAIN count : TRUE
         IN  count[k] + SumOf([x \in DOMAIN count \ {k} |-> count[x]])

\* m is the count map of the records as C25 describes it
IsCountMapOf(m, errors) ==
    /\ DOMAIN m.count = {<<errors[i].line, errors[i].rule, errors[i].column>> :
                            i \in DOMAIN errors}
    /\ \A k \in DOMAIN m.count : m.count[k] >= 1
    /\ \A i, j \in DOMAIN errors :
          /\ i # j
          /\ errors[i].line = errors[j].line
          /\ errors[i].rule = errors[j].rule
          /\ errors[i].column = errors[j].column
          => m.count[<<errors[i].line, errors[i].rule, errors[i].column>>] >= 2
    /\ SumOf(m.count) = Len(errors)
    /\ \A perm \in Permutations(DOMAIN errors) :
          to_count_map(Permuted(errors, perm)).count = m.count

\* C25: to_count_map maps each key (line, rule, column) of the records to
\* the number of records having it, whatever their messages: every count is
\* at least 1, records with the same key share one count, the counts sum to
\* the number of records, and every permutation of the records gives the
\* same mapping.
C25_CountMap ==
    Counted =>
        /\ IsCountMapOf(exp_count_map[1], exp_errors)
        /\ IsCountMapOf(act_count_map[1], act_errors)

\* two records that differ only by their message are counted under one key
C25_Witness ==
    /\ Counted
    /\ Len(act_errors) = 2
    /\ act_errors[1].message # act_errors[2].message
    /\ DOMAIN act_count_map[1].count = {<<1, "X", None>>}
    /\ act_count_map[1].count[<<1, "X", None>>] = 2

Compared == pc = "compared"

\* the (line, rule) pairs whose numbers of expected and of actual records
\* differ
MismatchingPairs ==
    {p \in {<<exp_errors[i].line, exp_errors[i].rule>> : i \in DOMAIN exp_errors}
           \cup {<<act_errors[j].line, act_errors[j].rule>> : j \in DOMAIN act_errors} :
        CountLineRule(exp_errors, p[1], p[2]) # CountLineRule(act_errors, p[1], p[2])}

\* C26: the per-(line, rule) failure reports the first mismatching pair in
\* ascending order of line, then of rule, with the numbers of expected and
\* of actual records of that pair; there is no such failure when no pair
\* mismatches.
C26_FirstMismatchReported ==
    Compared =>
        IF MismatchingPairs = {} THEN raised = None
        ELSE /\ raised # None
             /\ raised[1].kind = "line rule"
             /\ <<raised[1].line, raised[1].rule>> \in MismatchingPairs
             /\ \A q \in MismatchingPairs :
                   \/ raised[1].line < q[1]
                   \/ raised[1].line = q[1] /\ raised[1].rule = q[2]
                   \/ raised[1].line = q[1] /\ str_lt(raised[1].rule, q[2])
             /\ raised[1].expected = CountLineRule(exp_errors, raised[1].line, raised[1].rule)
             /\ raised[1].got = CountLineRule(act_errors, raised[1].line, raised[1].rule)

\* one expectation at (99, X) and one actual record at (1, X): the report
\* is for line 1, expected 0, got 1
C26_Witness ==
    /\ Compared
    /\ exp_errors = <<ExpectedError(99, "X", None, None, None)>>
    /\ Len(act_errors) = 1
    /\ Cardinality(MismatchingPairs) = 2
    /\ raised # None
    /\ raised[1].line = 1
    /\ raised[1].rule = "X"
    /\ raised[1].expected = 0
    /\ raised[1].got = 1

C30_ActiveContextHasItsFile ==
    \A c \in DOMAIN contexts :
        contexts[c].state = "active" =>
            config_file = Some(options_of(contexts[c].overrides))

====
